---- MODULE Spec2Model ----
(***************************************************************************)
(* cluster-man: a master process that forks a pool of workers, follows     *)
(* their lifecycle events and shuts the group down on pool exhaustion or   *)
(* on an unhandled master error.                                           *)
(*                                                                         *)
(* The model follows the ClusterManager of src/unnamed/part_000 (options,  *)
(* givenNumWorkers, _exitMaster, killOnError, the pool-exhaustion check on *)
(* cluster.workers) together with the worker set this.workers kept by      *)
(* src/index.js (created at line 96, pushed to at line 187, spliced at     *)
(* lines 227-232).  The node cluster module and the node domain module are *)
(* the environment: cluster.fork() hands out a handle with a fresh id and  *)
(* enters it in cluster.workers, a dead worker leaves cluster.workers      *)
(* before its 'exit' event is emitted, and a domain delivers to its        *)
(* 'error' listeners the errors that nothing on the call stack catches.    *)
(***************************************************************************)
EXTENDS Integers, Sequences, FiniteSets, TLC

(* ---------------------------- bounds ---------------------------------- *)
\* handles the fork facility hands out in one run
MaxWorkers == 3
\* start() calls in one run
MaxStarts == 2
\* 'exit' notifications delivered for an id that is not a live worker
MaxStrays == 1
\* errors surfacing on worker domains in one run
MaxWorkerErrors == 1
\* direct _exitMaster calls in one run
MaxDirect == 1
\* operations of one run beyond the first start() and the lifecycle events of
\* live workers: further start() calls, createWorker() calls at run time,
\* stray 'exit' notifications, worker errors, direct _exitMaster calls
MaxExtras == 1

(* ------------------------ program constants --------------------------- *)
\* os.cpus().length of the host
Cpus == 1

Undef == "undefined"

\* the five lifecycle events, in the order _startMaster binds them
eventNames == <<"fork", "listening", "exit", "online", "disconnect">>

EventSet == {eventNames[i] : i \in 1..Len(eventNames)}

(* ------------------------------ faults -------------------------------- *)
\* the value received by _exitMaster() when it is called without argument
NoFault == [message |-> Undef, oid |-> 0]

\* new Error('All workers have died.')
PoolFault == [message |-> "All workers have died.", oid |-> 0]

\* the k-th Error object thrown on the master side
MasterFault(k) == [message |-> "Unhandled Error", oid |-> k]

\* a status that does not look at the fault
StatusOf_AlwaysOne(err) == 1

\* err ? 1 : 0
StatusOf(err) == IF err # NoFault THEN 1 ELSE 0

(* --------------------------- constructor ------------------------------ *)
\* isFunction(x) on the values an option can take
isFunction(x) == x \in {"workerFn", "masterFn", "noop", "defaultHook",
                        "syncHook", "asyncHook", "hangHook"}

\* exists(x): neither undefined nor null
exists(x) == x # Undef

\* numeric value of a count given as a number or as an environment string
ToNumber(x) == CASE x = "0" -> 0 [] x = "1" -> 1 [] x = "2" -> 2
                 [] x = "3" -> 3 [] OTHER -> 0

\* the opts object the constructor works on: a bare function becomes
\* {worker: fn}, no argument becomes {}
NormalizeOpts(arg) ==
  IF arg.form = "function"
    THEN [worker |-> arg.worker, master |-> Undef, numWorkers |-> Undef,
          killOnError |-> Undef, beforeExit |-> Undef]
  ELSE IF arg.form = "none"
    THEN [worker |-> Undef, master |-> Undef, numWorkers |-> Undef,
          killOnError |-> Undef, beforeExit |-> Undef]
  ELSE [worker |-> arg.worker, master |-> arg.master,
        numWorkers |-> arg.numWorkers, killOnError |-> arg.killOnError,
        beforeExit |-> arg.beforeExit]

\* defaults that let the environment's count override the configured one
defaults_EnvFirst(o, envWorkers) ==
  [worker |-> o.worker,
   master |-> IF exists(o.master) THEN o.master ELSE "noop",
   numWorkers |-> IF exists(envWorkers) THEN ToNumber(envWorkers)
                  ELSE IF exists(o.numWorkers) THEN ToNumber(o.numWorkers)
                  ELSE Cpus,
   killOnError |-> IF exists(o.killOnError) THEN o.killOnError = "true"
                   ELSE TRUE,
   beforeExit |-> IF exists(o.beforeExit) THEN o.beforeExit
                  ELSE "defaultHook"]

\* defaults that switch killOnError off when it is missing
defaults_NoKill(o, envWorkers) ==
  [worker |-> o.worker,
   master |-> IF exists(o.master) THEN o.master ELSE "noop",
   numWorkers |-> IF exists(o.numWorkers) THEN ToNumber(o.numWorkers)
                  ELSE IF exists(envWorkers) THEN ToNumber(envWorkers)
                  ELSE Cpus,
   killOnError |-> IF exists(o.killOnError) THEN o.killOnError = "true"
                   ELSE FALSE,
   beforeExit |-> IF exists(o.beforeExit) THEN o.beforeExit
                  ELSE "defaultHook"]

\* defaults(this.options, {...}): a key is filled in only when it is missing
defaults(o, envWorkers) ==
  [worker |-> o.worker,
   master |-> IF exists(o.master) THEN o.master ELSE "noop",
   numWorkers |-> IF exists(o.numWorkers) THEN ToNumber(o.numWorkers)
                  ELSE IF exists(envWorkers) THEN ToNumber(envWorkers)
                  ELSE Cpus,
   killOnError |-> IF exists(o.killOnError) THEN o.killOnError = "true"
                   ELSE TRUE,
   beforeExit |-> IF exists(o.beforeExit) THEN o.beforeExit
                  ELSE "defaultHook"]

\* a constructor without the check of the worker option
ClusterManager_NoCheck(arg, envWorkers) ==
  LET o == NormalizeOpts(arg)
      d == defaults(o, envWorkers)
      warn == ~isFunction(d.beforeExit)
  IN [ok |-> TRUE,
      givenNumWorkers |-> exists(o.numWorkers) \/ exists(envWorkers),
      options |-> [d EXCEPT !.beforeExit = IF warn THEN "noop" ELSE @],
      warned |-> warn]

\* new ClusterManager(arg): ok = FALSE when the constructor throws
ClusterManager(arg, envWorkers) ==
  LET o == NormalizeOpts(arg)
      d == defaults(o, envWorkers)
      warn == ~isFunction(d.beforeExit)
  IN [ok |-> exists(d.worker) /\ isFunction(d.worker),
      givenNumWorkers |-> exists(o.numWorkers) \/ exists(envWorkers),
      options |-> [d EXCEPT !.beforeExit = IF warn THEN "noop" ELSE @],
      warned |-> warn]

(* ------------------------------ state --------------------------------- *)
VARIABLES
  options,          \* this.options after construction
  givenNumWorkers,  \* this.givenNumWorkers
  isMaster,         \* cluster.isMaster
  workers,          \* this.workers: the handles (ids) in creation order
  clusterWorkers,   \* cluster.workers: ids of the facility's live workers
  nextId,           \* id of the last handle cluster.fork() handed out
  listeners,        \* listeners bound on cluster, per event name
  domains,          \* master domains created and added to the manager
  workerDomains,    \* ids of the handles that carry a worker domain
  kills,            \* ids whose process received kill(1)
  exitMasterCalls,  \* the faults _exitMaster was called with
  hookCalls,        \* the faults options.beforeExit was called with
  hookPending,      \* faults of the hook calls whose done() is outstanding
  exitCode,         \* status given to process.exit, Running before it
  masterCalls,      \* the calls of options.master: argument, workers seen
  workerCalls,      \* the arguments of the calls of options.worker
  masterErrorCalls, \* the faults masterError was called with
  pendingErrs,      \* faults the master routine will raise asynchronously
  caught,           \* faults that a try/catch around start() received
  fx,               \* what the last operation did, in order
  starts,           \* start() calls so far
  creates,          \* createWorker() calls made outside _startMaster
  faults,           \* master-side faults raised so far
  directExits,      \* direct _exitMaster calls so far
  workerErrors,     \* errors that surfaced on worker domains so far
  exitNoted,        \* ids an 'exit' notification was delivered for
  strays,           \* 'exit' notifications for ids that were not live
  emitted,          \* the event the last operation emitted on cluster, if any
  counter,          \* the 'workers' metric kept by a monitoring subclass
  ctor              \* the constructor call: its argument, the environment's
                    \* CLUSTER_WORKERS, whether it has run, what it threw

vars == <<options, givenNumWorkers, isMaster, workers, clusterWorkers, nextId,
          listeners, domains, workerDomains, kills, exitMasterCalls,
          hookCalls, hookPending, exitCode, masterCalls, workerCalls,
          masterErrorCalls, pendingErrs, caught, fx, starts, creates, faults,
          directExits, workerErrors, exitNoted, strays, emitted, counter,
          ctor>>

Running == -1

Ids == 1..MaxWorkers

\* no event was emitted
NoEvent == [ev |-> Undef, w |-> 0]

\* the manager and its environment as one value, for the handlers below; fx,
\* emitted and ret (the value the last call returned) start empty in every
\* operation
St == [options |-> options, givenNumWorkers |-> givenNumWorkers,
       isMaster |-> isMaster, workers |-> workers,
       clusterWorkers |-> clusterWorkers, nextId |-> nextId,
       listeners |-> listeners, domains |-> domains,
       workerDomains |-> workerDomains, kills |-> kills,
       exitMasterCalls |-> exitMasterCalls, hookCalls |-> hookCalls,
       hookPending |-> hookPending, exitCode |-> exitCode,
       masterCalls |-> masterCalls, workerCalls |-> workerCalls,
       masterErrorCalls |-> masterErrorCalls, pendingErrs |-> pendingErrs,
       caught |-> caught, fx |-> <<>>, faults |-> faults,
       emitted |-> NoEvent, ret |-> 0, counter |-> counter]

Apply(s) ==
  /\ options' = s.options
  /\ givenNumWorkers' = s.givenNumWorkers
  /\ isMaster' = s.isMaster
  /\ workers' = s.workers
  /\ clusterWorkers' = s.clusterWorkers
  /\ nextId' = s.nextId
  /\ listeners' = s.listeners
  /\ domains' = s.domains
  /\ workerDomains' = s.workerDomains
  /\ kills' = s.kills
  /\ exitMasterCalls' = s.exitMasterCalls
  /\ hookCalls' = s.hookCalls
  /\ hookPending' = s.hookPending
  /\ exitCode' = s.exitCode
  /\ masterCalls' = s.masterCalls
  /\ workerCalls' = s.workerCalls
  /\ masterErrorCalls' = s.masterErrorCalls
  /\ pendingErrs' = s.pendingErrs
  /\ caught' = s.caught
  /\ fx' = s.fx
  /\ faults' = s.faults
  /\ emitted' = s.emitted
  /\ counter' = s.counter
  /\ ctor' = ctor

\* one entry of fx
Fx(op, a, w, err) == [op |-> op, a |-> a, w |-> w, err |-> err]

\* this.log[level](...)
Log(s, level, what, w) ==
  [s EXCEPT !.fx = Append(@, Fx("log", level, w, [NoFault EXCEPT !.message = what]))]

\* process.exit(code): nothing of the process runs afterwards
processExit(s, code) ==
  [s EXCEPT !.exitCode = code, !.fx = Append(@, Fx("process.exit", "", code, NoFault))]

Alive(s) == s.exitCode = Running

(* ------------------------- Shutdown Coordinator ----------------------- *)
\* a hook call after which the process exits whether or not done() was called
beforeExit_ExitAtOnce(s, err) ==
  processExit([s EXCEPT !.hookCalls = Append(@, err),
                        !.fx = Append(@, Fx("beforeExit", s.options.beforeExit, 0, err))],
              StatusOf(err))

\* a hook call that loses the done callback of an asynchronous hook
beforeExit_DropsDone(s, err) ==
  LET s1 == [s EXCEPT !.hookCalls = Append(@, err),
                      !.fx = Append(@, Fx("beforeExit", s.options.beforeExit, 0, err))]
  IN IF s.options.beforeExit \in {"defaultHook", "syncHook"}
       THEN processExit(s1, StatusOf(err))
       ELSE s1

\* this.options.beforeExit(err, done)
beforeExit(s, err) ==
  LET s1 == [s EXCEPT !.hookCalls = Append(@, err),
                      !.fx = Append(@, Fx("beforeExit", s.options.beforeExit, 0, err))]
  IN CASE s.options.beforeExit \in {"defaultHook", "syncHook"} ->
            processExit(s1, StatusOf(err))
       [] s.options.beforeExit = "asyncHook" ->
            [s1 EXCEPT !.hookPending = Append(@, err)]
       [] OTHER -> s1

\* an _exitMaster that exits without running the hook
_exitMaster_SkipHook(s, err) ==
  processExit([s EXCEPT !.exitMasterCalls = Append(@, err),
                        !.fx = Append(@, Fx("_exitMaster", "", 0, err))],
              StatusOf(err))

\* an _exitMaster that replaces the hook once it has called it
_exitMaster_Disarms(s, err) ==
  [beforeExit([s EXCEPT !.exitMasterCalls = Append(@, err),
                        !.fx = Append(@, Fx("_exitMaster", "", 0, err))], err)
     EXCEPT !.options.beforeExit = "noop"]

_exitMaster(s, err) ==
  beforeExit([s EXCEPT !.exitMasterCalls = Append(@, err),
                       !.fx = Append(@, Fx("_exitMaster", "", 0, err))], err)

(* --------------------------- masterError ------------------------------ *)
\* masterError that leaves out the 'Cluster fatal' entry
masterError_OneLog(s, err) ==
  LET s1 == Log([s EXCEPT !.masterErrorCalls = Append(@, err)],
                "error", "Unhandled master error", 0)
  IN IF s1.options.killOnError THEN _exitMaster(s1, err) ELSE s1

\* masterError that does not consult killOnError
masterError_AlwaysKill(s, err) ==
  LET s1 == Log([s EXCEPT !.masterErrorCalls = Append(@, err)],
                "error", "Unhandled master error", 0)
  IN _exitMaster(Log(s1, "error", "Cluster fatal: unhandled error", 0), err)

\* masterError that, when it does not kill, stops following the workers
masterError_Unbinds(s, err) ==
  LET s1 == Log([s EXCEPT !.masterErrorCalls = Append(@, err)],
                "error", "Unhandled master error", 0)
  IN IF s1.options.killOnError
       THEN _exitMaster(Log(s1, "error", "Cluster fatal: unhandled error", 0), err)
       ELSE [s1 EXCEPT !.listeners = [e \in DOMAIN @ |-> 0]]

\* masterError that kills the workers before it shuts the master down
masterError_KillsWorkers(s, err) ==
  LET s1 == Log([s EXCEPT !.masterErrorCalls = Append(@, err)],
                "error", "Unhandled master error", 0)
  IN IF s1.options.killOnError
       THEN _exitMaster(Log([s1 EXCEPT !.kills = @ \cup s.clusterWorkers],
                            "error", "Cluster fatal: unhandled error", 0), err)
       ELSE s1

masterError(s, err) ==
  LET s1 == Log([s EXCEPT !.masterErrorCalls = Append(@, err)],
                "error", "Unhandled master error", 0)
  IN IF s1.options.killOnError
       THEN _exitMaster(Log(s1, "error", "Cluster fatal: unhandled error", 0), err)
       ELSE s1

(* --------------------------- createWorker ----------------------------- *)
\* this.cluster.fork(): a handle with a fresh id, entered in cluster.workers
clusterFork(s) ==
  [s EXCEPT !.nextId = @ + 1,
            !.clusterWorkers = @ \cup {s.nextId + 1},
            !.fx = Append(@, Fx("cluster.fork", "", s.nextId + 1, NoFault))]

\* a createWorker that puts the new handle in front of the others
createWorker_Unshift(s) ==
  LET s1 == clusterFork(s)
      worker == s1.nextId
      s2 == [s1 EXCEPT !.workerDomains = @ \cup {worker},
                       !.workers = <<worker>> \o @]
  IN [Log(s2, "info", "Created new worker", worker) EXCEPT !.ret = worker]

\* a createWorker that enters the new handle in this.workers twice
createWorker_PushTwice(s) ==
  LET s1 == clusterFork(s)
      worker == s1.nextId
      s2 == [s1 EXCEPT !.workerDomains = @ \cup {worker},
                       !.workers = @ \o <<worker, worker>>]
  IN [Log(s2, "info", "Created new worker", worker) EXCEPT !.ret = worker]

createWorker(s) ==
  LET s1 == clusterFork(s)
      worker == s1.nextId
      s2 == [s1 EXCEPT !.workerDomains = @ \cup {worker},
                       !.workers = Append(@, worker)]
  IN [Log(s2, "info", "Created new worker", worker) EXCEPT !.ret = worker]

\* a worker-domain listener that logs and leaves the worker running
workerDomainError_LogOnly(s, worker) ==
  Log(s, "error", "Unhandled worker error", worker)

\* a worker-domain listener that also hands the error to masterError
workerDomainError_Escalates(s, worker) ==
  masterError([Log(s, "error", "Unhandled worker error", worker)
                 EXCEPT !.kills = @ \cup {worker},
                        !.fx = Append(@, Fx("kill", "", worker, NoFault))],
              MasterFault(0))

\* workerDomain.on('error', function (err) { self.log.error(...);
\* worker.process.kill(1) })
workerDomainError(s, worker) ==
  [Log(s, "error", "Unhandled worker error", worker)
     EXCEPT !.kills = @ \cup {worker},
            !.fx = Append(@, Fx("kill", "", worker, NoFault))]

(* ------------------------- lifecycle handlers ------------------------- *)
fork(s, worker) == Log(s, "info", "Worker forked", worker)

online(s, worker) == Log(s, "info", "Worker online", worker)

listening(s, worker) == Log(s, "info", "Worker listening", worker)

\* a disconnect handler that gives the worker up: kills it and forgets it
disconnect_Kills(s, worker) ==
  [Log(s, "info", "Worker disconnected", worker)
     EXCEPT !.kills = @ \cup {worker},
            !.workers = SelectSeq(@, LAMBDA x : x # worker)]

disconnect(s, worker) == Log(s, "info", "Worker disconnected", worker)

\* a removal by pop() instead of splice(i, 1)
Splice_Pop(ws, i) == IF ws = <<>> THEN ws ELSE SubSeq(ws, 1, Len(ws) - 1)

\* ws.splice(i, 1) with a 0-based i: nothing is removed past the end
Splice(ws, i) ==
  IF i + 1 > Len(ws) THEN ws
  ELSE SubSeq(ws, 1, i) \o SubSeq(ws, i + 2, Len(ws))

\* this.workers.map(pluck('id')).some(...): the ids are a snapshot, every
\* index whose id matches is spliced out of the current this.workers
RECURSIVE RemoveLoop(_, _, _, _)
RemoveLoop(ws, ids, i, id) ==
  IF i >= Len(ids) THEN ws
  ELSE RemoveLoop(IF ids[i + 1] = id THEN Splice(ws, i) ELSE ws, ids, i + 1, id)

\* a removal that takes the oldest handle when the id is not found
RemoveWorker_OrFirst(ws, id) ==
  IF \E i \in DOMAIN ws : ws[i] = id THEN RemoveLoop(ws, ws, 0, id)
  ELSE Splice(ws, 0)

RemoveWorker(ws, id) == RemoveLoop(ws, ws, 0, id)

\* a count taken as if the exiting worker were still there
numLive_Stale(s) == Cardinality(s.clusterWorkers) + 1

\* a count that already gives up with one worker left
numLive_AtMostOne(s) ==
  IF Cardinality(s.clusterWorkers) <= 1 THEN 0 ELSE Cardinality(s.clusterWorkers)

\* Object.keys(this.cluster.workers).length
numLive(s) == Cardinality(s.clusterWorkers)

\* an exit handler whose exhaustion check also asks for killOnError
exit_FlagGated(s, worker) ==
  LET s1 == Log(s, "info", "Worker exited", worker)
      s2 == [s1 EXCEPT !.workers = RemoveWorker(@, worker)]
  IN IF numLive(s2) = 0 /\ s2.options.killOnError
       THEN _exitMaster(Log(s2, "error", "Cluster fatal: all worker have died", 0),
                        PoolFault)
       ELSE s2

\* an exit handler that counts the initial pool down instead of looking at
\* the workers that are left
exit_PoolCounter(s, worker) ==
  LET s1 == Log(s, "info", "Worker exited", worker)
      s2 == [s1 EXCEPT !.workers = RemoveWorker(@, worker)]
  IN IF s2.options.numWorkers - (s2.nextId - Len(s2.workers)) <= 0
       THEN _exitMaster(Log(s2, "error", "Cluster fatal: all worker have died", 0),
                        PoolFault)
       ELSE s2

\* an exit handler that shuts down on exhaustion without the error entry
exit_Silent(s, worker) ==
  LET s1 == Log(s, "info", "Worker exited", worker)
      s2 == [s1 EXCEPT !.workers = RemoveWorker(@, worker)]
  IN IF numLive(s2) = 0 THEN _exitMaster(s2, PoolFault) ELSE s2

exit(s, worker) ==
  LET s1 == Log(s, "info", "Worker exited", worker)
      s2 == [s1 EXCEPT !.workers = RemoveWorker(@, worker)]
  IN IF numLive(s2) = 0
       THEN _exitMaster(Log(s2, "error", "Cluster fatal: all worker have died", 0),
                        PoolFault)
       ELSE s2

\* listeners that call the handler of another event for online and listening
Handle_Crossed(s, ev, worker) ==
  CASE ev = "fork" -> fork(s, worker)
    [] ev = "listening" -> online(s, worker)
    [] ev = "exit" -> exit(s, worker)
    [] ev = "online" -> listening(s, worker)
    [] ev = "disconnect" -> disconnect(s, worker)

\* self[eventName].apply(self, arguments)
Handle(s, ev, worker) ==
  CASE ev = "fork" -> fork(s, worker)
    [] ev = "listening" -> listening(s, worker)
    [] ev = "exit" -> exit(s, worker)
    [] ev = "online" -> online(s, worker)
    [] ev = "disconnect" -> disconnect(s, worker)

\* cluster.emit(ev, worker): every bound listener runs, while the process lives
RECURSIVE Dispatch(_, _, _, _)
Dispatch(s, ev, worker, n) ==
  IF n = 0 \/ ~Alive(s) THEN s
  ELSE Dispatch(Handle(s, ev, worker), ev, worker, n - 1)

(* ------------------------------ start --------------------------------- *)
\* eventNames.forEach(function (eventName) { self.cluster.on(eventName, ...) })
RECURSIVE BindEvents(_, _)
BindEvents(s, i) ==
  IF i > Len(eventNames) THEN s
  ELSE BindEvents([s EXCEPT !.listeners[eventNames[i]] = @ + 1,
                            !.fx = Append(@, Fx("cluster.on", eventNames[i], 0, NoFault))],
                  i + 1)

\* a spawn loop that runs once too often
RECURSIVE SpawnWorkers_OneMore(_, _)
SpawnWorkers_OneMore(s, i) ==
  IF i <= s.options.numWorkers THEN SpawnWorkers_OneMore(createWorker(s), i + 1)
  ELSE s

\* for (var i = 0; i < this.options.numWorkers; i++) this.createWorker()
RECURSIVE SpawnWorkers(_, _)
SpawnWorkers(s, i) ==
  IF i < s.options.numWorkers THEN SpawnWorkers(createWorker(s), i + 1) ELSE s

\* a boundary that loses the error of a synchronous throw
RunMaster_Swallow(s, outcome, catches) ==
  LET throws == s.options.master # "noop" /\ outcome # "return"
      err == IF throws THEN MasterFault(s.faults + 1) ELSE NoFault
      s1 == [s EXCEPT !.masterCalls =
                         Append(@, [arg |-> "masterDomain", seen |-> s.workers,
                                    outcome |-> IF throws THEN outcome ELSE "return",
                                    catches |-> throws /\ outcome = "throwSync" /\ catches,
                                    err |-> err]),
                      !.fx = Append(@, Fx("master", s.options.master, Len(s.workers), err))]
  IN IF ~throws THEN s1
     ELSE IF outcome = "throwAsync"
       THEN [s1 EXCEPT !.faults = @ + 1, !.pendingErrs = Append(@, err)]
     ELSE [s1 EXCEPT !.faults = @ + 1]

\* masterDomain.run(function () { self.options.master(this) }): the function
\* runs with the domain as its this; an error it throws unwinds the stack,
\* and reaches the domain's 'error' listener when no caller catches it
RunMaster(s, outcome, catches) ==
  LET throws == s.options.master # "noop" /\ outcome # "return"
      err == IF throws THEN MasterFault(s.faults + 1) ELSE NoFault
      s1 == [s EXCEPT !.masterCalls =
                         Append(@, [arg |-> "masterDomain", seen |-> s.workers,
                                    outcome |-> IF throws THEN outcome ELSE "return",
                                    catches |-> throws /\ outcome = "throwSync" /\ catches,
                                    err |-> err]),
                      !.fx = Append(@, Fx("master", s.options.master, Len(s.workers), err))]
  IN IF ~throws THEN s1
     ELSE IF outcome = "throwAsync"
       THEN [s1 EXCEPT !.faults = @ + 1, !.pendingErrs = Append(@, err)]
     ELSE IF catches
       THEN [s1 EXCEPT !.faults = @ + 1, !.caught = Append(@, err)]
     ELSE masterError([s1 EXCEPT !.faults = @ + 1], err)

\* a startup that runs the master routine before it spawns the workers
_startMaster_MasterFirst(s, outcome, catches) ==
  LET s1 == IF ~s.givenNumWorkers
              THEN Log(s, "warning", "Number of workers not specified, using default.", 0)
              ELSE s
      s2 == [s1 EXCEPT !.domains = @ + 1,
                       !.fx = Append(@, Fx("domain.create", "master", 0, NoFault))]
      s3 == BindEvents(s2, 1)
  IN SpawnWorkers(RunMaster(s3, outcome, catches), 0)

\* a startup that warns about the worker count whether or not it was given
_startMaster_WarnsAlways(s, outcome, catches) ==
  LET s1 == Log(s, "warning", "Number of workers not specified, using default.", 0)
      s2 == [s1 EXCEPT !.domains = @ + 1,
                       !.fx = Append(@, Fx("domain.create", "master", 0, NoFault))]
      s3 == BindEvents(s2, 1)
      s4 == SpawnWorkers(s3, 0)
  IN RunMaster(s4, outcome, catches)

\* a startup that spawns the workers before it binds the lifecycle events
_startMaster_SpawnFirst(s, outcome, catches) ==
  LET s1 == IF ~s.givenNumWorkers
              THEN Log(s, "warning", "Number of workers not specified, using default.", 0)
              ELSE s
      s2 == [s1 EXCEPT !.domains = @ + 1,
                       !.fx = Append(@, Fx("domain.create", "master", 0, NoFault))]
      s3 == SpawnWorkers(s2, 0)
      s4 == BindEvents(s3, 1)
  IN RunMaster(s4, outcome, catches)

_startMaster(s, outcome, catches) ==
  LET s1 == IF ~s.givenNumWorkers
              THEN Log(s, "warning", "Number of workers not specified, using default.", 0)
              ELSE s
      s2 == [s1 EXCEPT !.domains = @ + 1,
                       !.fx = Append(@, Fx("domain.create", "master", 0, NoFault))]
      s3 == BindEvents(s2, 1)
      s4 == SpawnWorkers(s3, 0)
  IN RunMaster(s4, outcome, catches)

\* a worker startup that wraps the worker routine in a domain of its own
_startWorker_Boundary(s) ==
  [s EXCEPT !.domains = @ + 1,
            !.workerCalls = Append(@, "manager"),
            !.fx = @ \o <<Fx("domain.create", "worker", 0, NoFault),
                          Fx("worker", s.options.worker, 0, NoFault)>>]

_startWorker(s) ==
  [s EXCEPT !.workerCalls = Append(@, "manager"),
            !.fx = Append(@, Fx("worker", s.options.worker, 0, NoFault))]

\* a start() that runs both startups
start_Both(s, outcome, catches) ==
  _startWorker(_startMaster(s, outcome, catches))

start(s, outcome, catches) ==
  IF s.isMaster THEN _startMaster(s, outcome, catches) ELSE _startWorker(s)

(* ------------------------------ Init ---------------------------------- *)
\* the constructor arguments of the runs
Args ==
  [form : {"object"}, worker : {"workerFn"}, master : {"masterFn"},
   numWorkers : {Undef, "0", "1"}, killOnError : {Undef, "false"},
   beforeExit : {Undef, "asyncHook", "notFn"}]
  \cup
  [form : {"function"}, worker : {"workerFn"}, master : {Undef},
   numWorkers : {Undef}, killOnError : {Undef}, beforeExit : {Undef}]

\* process.env.CLUSTER_WORKERS
EnvWorkers == {Undef, "2"}

Init ==
  \E arg \in Args, env \in EnvWorkers, role \in BOOLEAN :
    LET m == ClusterManager(arg, env) IN
      /\ m.ok
      /\ exists(arg.numWorkers) => env = Undef
      /\ ~role => arg.form = "function"
      /\ options = m.options
      /\ givenNumWorkers = m.givenNumWorkers
      /\ isMaster = role
      /\ workers = <<>>
      /\ clusterWorkers = {}
      /\ nextId = 0
      /\ listeners = [e \in EventSet |-> 0]
      /\ domains = 0
      /\ workerDomains = {}
      /\ kills = {}
      /\ exitMasterCalls = <<>>
      /\ hookCalls = <<>>
      /\ hookPending = <<>>
      /\ exitCode = Running
      /\ masterCalls = <<>>
      /\ workerCalls = <<>>
      /\ masterErrorCalls = <<>>
      /\ pendingErrs = <<>>
      /\ caught = <<>>
      /\ fx = <<>>
      /\ starts = 0
      /\ creates = 0
      /\ faults = 0
      /\ directExits = 0
      /\ workerErrors = 0
      /\ exitNoted = {}
      /\ strays = 0
      /\ emitted = NoEvent
      /\ counter = 0
      /\ ctor = [arg |-> arg, env |-> env, done |-> TRUE, thrown |-> Undef]

(* ----------------------------- actions -------------------------------- *)
Extras ==
  (IF starts > 1 THEN starts - 1 ELSE 0) + creates + strays + workerErrors
  + directExits

MasterOutcomes == {"return", "throwSync", "throwAsync"}

\* manager.start(). The master routine and the code that calls start() are
\* fixed pieces of code: a later run of the routine ends the way its first
\* run did
Start ==
  /\ exitCode = Running
  /\ starts < MaxStarts
  /\ starts > 0 => Extras < MaxExtras
  /\ isMaster => nextId + options.numWorkers <= MaxWorkers
  /\ \E outcome \in MasterOutcomes, catches \in BOOLEAN :
       /\ masterCalls # <<>> => /\ outcome = masterCalls[1].outcome
                                /\ catches = masterCalls[1].catches
       /\ Apply(start(St, outcome, catches))
  /\ starts' = starts + 1
  /\ UNCHANGED <<creates, directExits, workerErrors, exitNoted, strays>>

\* manager.createWorker() called by operator code at run time, that is in a
\* master that has been started
CreateWorker ==
  /\ exitCode = Running
  /\ isMaster
  /\ starts > 0
  /\ nextId < MaxWorkers
  /\ Extras < MaxExtras
  /\ LET s == createWorker(St)
     IN Apply([s EXCEPT !.fx = Append(@, Fx("return", "createWorker", s.ret, NoFault))])
  /\ creates' = creates + 1
  /\ UNCHANGED <<starts, directExits, workerErrors, exitNoted, strays>>

\* the facility emits fork, online, listening or disconnect for a worker
EmitInfo(ev) ==
  /\ exitCode = Running
  /\ isMaster
  /\ \E w \in clusterWorkers :
       Apply(Dispatch([St EXCEPT !.emitted = [ev |-> ev, w |-> w]], ev, w,
                      listeners[ev]))
  /\ UNCHANGED <<starts, creates, directExits, workerErrors, exitNoted, strays>>

EmitFork == EmitInfo("fork")

EmitOnline == EmitInfo("online")

EmitListening == EmitInfo("listening")

EmitDisconnect == EmitInfo("disconnect")

\* a worker process has ended: it leaves cluster.workers, then 'exit' is
\* emitted on cluster
EmitExit ==
  /\ exitCode = Running
  /\ isMaster
  /\ \E w \in Ids :
       /\ w \notin clusterWorkers => strays < MaxStrays /\ Extras < MaxExtras
       /\ Apply(Dispatch([St EXCEPT !.clusterWorkers = @ \ {w},
                                    !.emitted = [ev |-> "exit", w |-> w]],
                         "exit", w, listeners["exit"]))
       /\ exitNoted' = exitNoted \cup {w}
       /\ strays' = IF w \in clusterWorkers THEN strays ELSE strays + 1
  /\ UNCHANGED <<starts, creates, directExits, workerErrors>>

\* workerDomain.on('error', ...): an error surfaces on a worker's domain
WorkerError ==
  /\ exitCode = Running
  /\ isMaster
  /\ workerErrors < MaxWorkerErrors
  /\ Extras < MaxExtras
  /\ \E w \in workerDomains :
       Apply(workerDomainError(St, w))
  /\ workerErrors' = workerErrors + 1
  /\ UNCHANGED <<starts, creates, directExits, exitNoted, strays>>

\* masterDomain.on('error', ...): an error raised asynchronously by the master
\* routine reaches the master domain
MasterDomainError ==
  /\ exitCode = Running
  /\ pendingErrs # <<>>
  /\ Apply(masterError([St EXCEPT !.pendingErrs = Tail(@)], Head(pendingErrs)))
  /\ UNCHANGED <<starts, creates, directExits, workerErrors, exitNoted, strays>>

\* manager._exitMaster(err) called directly, with or without a fault
ExitMasterDirect ==
  /\ exitCode = Running
  /\ directExits < MaxDirect
  /\ Extras < MaxExtras
  /\ \E err \in {NoFault, MasterFault(0)} : Apply(_exitMaster(St, err))
  /\ directExits' = directExits + 1
  /\ UNCHANGED <<starts, creates, workerErrors, exitNoted, strays>>

\* an asynchronous pre-exit hook calls done(): process.exit(err ? 1 : 0)
HookDone ==
  /\ exitCode = Running
  /\ \E i \in 1..Len(hookPending) :
       Apply(processExit([St EXCEPT !.hookPending =
                            SubSeq(@, 1, i - 1) \o SubSeq(@, i + 1, Len(@))],
                         StatusOf(hookPending[i])))
  /\ UNCHANGED <<starts, creates, directExits, workerErrors, exitNoted, strays>>

Next ==
  \/ Start
  \/ CreateWorker
  \/ EmitFork
  \/ EmitOnline
  \/ EmitListening
  \/ EmitDisconnect
  \/ EmitExit
  \/ WorkerError
  \/ MasterDomainError
  \/ ExitMasterDirect
  \/ HookDone

Spec == Init /\ [][Next]_vars

\* the runs in which a hook that calls done() does so after finitely many
\* steps: an outstanding done() of an asynchronous hook is eventually called
LiveSpec == Init /\ [][Next]_vars /\ WF_vars(HookDone)

(* --------------------------- construction ----------------------------- *)
\* new Error('Cluster must be provided with a worker closure.')
WorkerMissing == "Cluster must be provided with a worker closure."

\* the arguments a caller can give to new ClusterManager(...): nothing, a
\* bare function, or an options object
CtorArgs ==
  [form : {"object"}, worker : {Undef, "workerFn", "notFn"},
   master : {Undef, "masterFn"}, numWorkers : {Undef, "0", "1", "2"},
   killOnError : {Undef, "true", "false"},
   beforeExit : {Undef, "syncHook", "asyncHook", "notFn"}]
  \cup
  [form : {"function"}, worker : {"workerFn"}, master : {Undef},
   numWorkers : {Undef}, killOnError : {Undef}, beforeExit : {Undef}]
  \cup
  [form : {"none"}, worker : {Undef}, master : {Undef},
   numWorkers : {Undef}, killOnError : {Undef}, beforeExit : {Undef}]

\* process.env.CLUSTER_WORKERS at construction
CtorEnv == {Undef, "2", "3"}

\* a caller is about to evaluate new ClusterManager(arg)
CtorInit ==
  \E arg \in CtorArgs, env \in CtorEnv :
    /\ ctor = [arg |-> arg, env |-> env, done |-> FALSE, thrown |-> Undef]
    /\ options = NormalizeOpts(arg)
    /\ givenNumWorkers = FALSE
    /\ isMaster = TRUE
    /\ workers = <<>>
    /\ clusterWorkers = {}
    /\ nextId = 0
    /\ listeners = [e \in EventSet |-> 0]
    /\ domains = 0
    /\ workerDomains = {}
    /\ kills = {}
    /\ exitMasterCalls = <<>>
    /\ hookCalls = <<>>
    /\ hookPending = <<>>
    /\ exitCode = Running
    /\ masterCalls = <<>>
    /\ workerCalls = <<>>
    /\ masterErrorCalls = <<>>
    /\ pendingErrs = <<>>
    /\ caught = <<>>
    /\ fx = <<>>
    /\ starts = 0
    /\ creates = 0
    /\ faults = 0
    /\ directExits = 0
    /\ workerErrors = 0
    /\ exitNoted = {}
    /\ strays = 0
    /\ emitted = NoEvent
    /\ counter = 0

\* new ClusterManager(arg) runs: it throws, or it leaves the options and
\* givenNumWorkers of the new manager, with a warning for a discarded hook
Construct ==
  /\ ~ctor.done
  /\ LET m == ClusterManager(ctor.arg, ctor.env) IN
       /\ ctor' = [ctor EXCEPT !.done = TRUE,
                               !.thrown = IF m.ok THEN Undef ELSE WorkerMissing]
       /\ options' = IF m.ok THEN m.options ELSE options
       /\ givenNumWorkers' = IF m.ok THEN m.givenNumWorkers ELSE FALSE
       /\ fx' = IF m.ok /\ m.warned
                  THEN <<Fx("log", "warning", 0,
                            [NoFault EXCEPT !.message =
                               "Before exit callback is not a function, removing."])>>
                  ELSE <<>>
  /\ UNCHANGED <<isMaster, workers, clusterWorkers, nextId, listeners, domains,
                 workerDomains, kills, exitMasterCalls, hookCalls, hookPending,
                 exitCode, masterCalls, workerCalls, masterErrorCalls,
                 pendingErrs, caught, starts, creates, faults, directExits,
                 workerErrors, exitNoted, strays, emitted, counter>>

CtorSpec == CtorInit /\ [][Construct]_vars

(* ----------------------- auto-respawn extension ----------------------- *)
\* the status of a node process that ends on an uncaught exception: 8 in
\* node 0.10, 1 in later versions
UncaughtStatus == {1, 8}

\* the listener of the README example, manager.cluster.on('exit', function
\* () { var delta = manager.options.numWorkers - manager.workers.length;
\* for (i < delta) this.createWorker() }): a listener runs with the emitter,
\* cluster, as its this, and cluster has no createWorker, so the first call
\* throws a TypeError that nothing catches
respawn(s, code) ==
  LET delta == s.options.numWorkers - Len(s.workers)
  IN IF delta > 0
       THEN [s EXCEPT !.exitCode = code,
                      !.fx = Append(@, Fx("throw", "TypeError", 0, NoFault))]
       ELSE s

\* a worker process has ended in a master that runs the README example: the
\* example's listener was bound before start(), so it runs before the
\* listener start() bound for the exit handler
RespawnExit ==
  /\ exitCode = Running
  /\ isMaster
  /\ \E w \in clusterWorkers, code \in UncaughtStatus :
       /\ Apply(Dispatch(respawn([St EXCEPT !.clusterWorkers = @ \ {w},
                                            !.emitted = [ev |-> "exit", w |-> w]],
                                  code),
                         "exit", w, listeners["exit"]))
       /\ exitNoted' = exitNoted \cup {w}
  /\ UNCHANGED <<starts, creates, directExits, workerErrors, strays>>

RespawnNext ==
  \/ Start
  \/ RespawnExit
  \/ EmitFork
  \/ EmitOnline
  \/ EmitListening
  \/ EmitDisconnect
  \/ WorkerError
  \/ MasterDomainError
  \/ HookDone

RespawnSpec == Init /\ [][RespawnNext]_vars

(* ------------------------ monitoring subclass ------------------------- *)
\* a createWorker override that forgets to count
monCreateWorker_NoCount(s) == createWorker(s)

\* AppManager.prototype.createWorker of the README: the default createWorker,
\* then monitor.increment('workers')
monCreateWorker(s) ==
  LET s1 == createWorker(s)
  IN [s1 EXCEPT !.counter = @ + 1,
                !.fx = Append(@, Fx("monitor.increment", "workers", 1, NoFault))]

\* AppManager.prototype.exit of the README: the default exit handler, then
\* monitor.increment('workers', -1) if the process is still there
monExit(s, worker) ==
  LET s1 == exit(s, worker)
  IN IF Alive(s1)
       THEN [s1 EXCEPT !.counter = @ - 1,
                       !.fx = Append(@, Fx("monitor.increment", "workers", -1, NoFault))]
       ELSE s1

\* cluster.emit('exit', worker) in a master of the subclass: self['exit'] is
\* the override
RECURSIVE monDispatch(_, _, _)
monDispatch(s, worker, n) ==
  IF n = 0 \/ ~Alive(s) THEN s
  ELSE monDispatch(monExit(s, worker), worker, n - 1)

\* the spawn loop of _startMaster in the subclass: this.createWorker is the
\* override
RECURSIVE monSpawnWorkers(_, _)
monSpawnWorkers(s, i) ==
  IF i < s.options.numWorkers THEN monSpawnWorkers(monCreateWorker(s), i + 1)
  ELSE s

\* _startMaster, inherited, run on an AppManager
monStartMaster(s, outcome, catches) ==
  LET s1 == IF ~s.givenNumWorkers
              THEN Log(s, "warning", "Number of workers not specified, using default.", 0)
              ELSE s
      s2 == [s1 EXCEPT !.domains = @ + 1,
                       !.fx = Append(@, Fx("domain.create", "master", 0, NoFault))]
      s3 == BindEvents(s2, 1)
      s4 == monSpawnWorkers(s3, 0)
  IN RunMaster(s4, outcome, catches)

\* AppManager.prototype._startWorker of the README: app.start()
monStartWorker(s) ==
  [s EXCEPT !.workerCalls = Append(@, "app.start"),
            !.fx = Append(@, Fx("worker", "app.start", 0, NoFault))]

\* manager.start(), the one call the README's script makes
MonStart ==
  /\ exitCode = Running
  /\ starts = 0
  /\ isMaster => nextId + options.numWorkers <= MaxWorkers
  /\ \E outcome \in MasterOutcomes, catches \in BOOLEAN :
       Apply(IF isMaster THEN monStartMaster(St, outcome, catches)
             ELSE monStartWorker(St))
  /\ starts' = starts + 1
  /\ UNCHANGED <<creates, directExits, workerErrors, exitNoted, strays>>

\* manager.createWorker() called at run time on an AppManager
MonCreateWorker ==
  /\ exitCode = Running
  /\ isMaster
  /\ starts > 0
  /\ nextId < MaxWorkers
  /\ Extras < MaxExtras
  /\ LET s == monCreateWorker(St)
     IN Apply([s EXCEPT !.fx = Append(@, Fx("return", "createWorker", s.ret, NoFault))])
  /\ creates' = creates + 1
  /\ UNCHANGED <<starts, directExits, workerErrors, exitNoted, strays>>

\* a worker process has ended, or 'exit' is emitted for an id that is not a
\* live worker, in a master of the subclass
MonExit ==
  /\ exitCode = Running
  /\ isMaster
  /\ \E w \in Ids :
       /\ w \notin clusterWorkers => strays < MaxStrays /\ Extras < MaxExtras
       /\ Apply(monDispatch([St EXCEPT !.clusterWorkers = @ \ {w},
                                       !.emitted = [ev |-> "exit", w |-> w]],
                            w, listeners["exit"]))
       /\ exitNoted' = exitNoted \cup {w}
       /\ strays' = IF w \in clusterWorkers THEN strays ELSE strays + 1
  /\ UNCHANGED <<starts, creates, directExits, workerErrors>>

MonitorNext ==
  \/ MonStart
  \/ MonCreateWorker
  \/ MonExit
  \/ MasterDomainError
  \/ HookDone

MonitorSpec == Init /\ [][MonitorNext]_vars

(* ============================== claims ================================ *)
\* the operation that ran last was the exit handler, for worker w
ExitRan(f) == f # <<>> /\ f[1].op = "log" /\ f[1].err.message = "Worker exited"

\* the entries of f with the given op
Only(f, op) == LET Test(e) == e.op = op IN SelectSeq(f, Test)

\* the error-severity log entries of f
ErrorLogs(f) == LET Test(e) == e.op = "log" /\ e.a = "error" IN SelectSeq(f, Test)

\* the positions of f that hold a log entry with the given text
LogAt(f, what) == {p \in DOMAIN f : f[p].op = "log" /\ f[p].err.message = what}

\* the number of times x occurs in the sequence q
Count(q, x) == Cardinality({i \in DOMAIN q : q[i] = x})

Last(q) == q[Len(q)]

\* one start() in the master role and nothing else but the lifecycle events
\* of the workers it forked
FreshPool ==
  /\ isMaster /\ starts = 1
  /\ creates = 0 /\ strays = 0 /\ directExits = 0 /\ faults = 0

\* the handles of the pool forked by the first start()
Pool == 1..options.numWorkers

C2_ExitRemovesById ==
  [][\A w \in Ids :
       (ExitRan(fx') /\ fx'[1].w = w /\ (\E i \in DOMAIN workers : workers[i] = w))
       => LET Keep(x) == x # w IN
            /\ \A i \in DOMAIN workers' : workers'[i] # w
            /\ Len(workers') = Len(workers) - 1
            /\ workers' = SelectSeq(workers, Keep)]_vars

C2_Witness ==
  /\ ExitRan(fx) /\ fx[1].w = 1
  /\ workers = <<2, 3>>

C4_StartSpawnsN ==
  (isMaster /\ starts = 1 /\ creates = 0 /\ exitNoted = {}) =>
    /\ Len(workers) = options.numWorkers
    /\ {workers[i] : i \in DOMAIN workers} = clusterWorkers
    /\ Cardinality(clusterWorkers) = options.numWorkers

C4_Witness ==
  /\ isMaster /\ starts = 1 /\ creates = 0 /\ exitNoted = {}
  /\ options.numWorkers = 2 /\ workers = <<1, 2>>

\* C5: the master routine is called after all numWorkers createWorker calls
\* of its startup have returned: the registry it sees holds at least
\* numWorkers handles, and in the startup's record the numWorkers forks all
\* come before the call of the master routine.
C5_MasterSeesFullPool ==
  /\ \A i \in DOMAIN masterCalls :
       Len(masterCalls[i].seen) >= options.numWorkers
  /\ \A p \in DOMAIN fx :
       fx[p].op = "master" =>
         /\ Len(Only(SubSeq(fx, 1, p - 1), "cluster.fork")) = options.numWorkers
         /\ Only(SubSeq(fx, p + 1, Len(fx)), "cluster.fork") = <<>>
         /\ fx[p].w = Len(workers)

C5_Witness ==
  /\ Len(masterCalls) = 1 /\ masterCalls[1].seen = <<1, 2>>
  /\ \E p \in DOMAIN fx : fx[p].op = "master"

\* C6: one master startup calls the master routine exactly once, and the
\* argument of the call is the manager itself.
C6_MasterGetsManager ==
  /\ isMaster => Len(masterCalls) = starts
  /\ \A i \in DOMAIN masterCalls : masterCalls[i].arg = "manager"

C8_MasterErrorKills ==
  \A p \in LogAt(fx, "Unhandled master error") :
    options.killOnError =>
      /\ Len(fx) >= p + 2
      /\ fx[p + 1] = Fx("log", "error", 0,
                        [NoFault EXCEPT !.message = "Cluster fatal: unhandled error"])
      /\ fx[p + 2] = Fx("_exitMaster", "", 0, Last(masterErrorCalls))
      /\ Len(ErrorLogs(fx)) = 2
      /\ Last(exitMasterCalls) = Last(masterErrorCalls)
      /\ exitCode \in {Running, 1}
      /\ options.beforeExit = "defaultHook" => exitCode = 1

C8_Witness ==
  /\ options.killOnError /\ options.beforeExit = "defaultHook"
  /\ LogAt(fx, "Unhandled master error") # {}
  /\ exitMasterCalls = <<MasterFault(1)>> /\ exitCode = 1

\* C9: with killOnError false, a run of masterError writes one error log
\* entry and nothing else: it calls neither _exitMaster nor the hook and
\* does not end the process.
C9_NoKillOnError ==
  [][(~options.killOnError /\ masterErrorCalls' # masterErrorCalls) =>
       /\ exitMasterCalls' = exitMasterCalls
       /\ hookCalls' = hookCalls
       /\ exitCode' = Running
       /\ Len(ErrorLogs(fx')) = 1]_vars

C9_Witness ==
  /\ ~options.killOnError /\ masterErrorCalls # <<>>
  /\ LogAt(fx, "Unhandled master error") # {}
  /\ exitMasterCalls = <<>> /\ exitCode = Running

\* C10: whatever killOnError is, an exit handler run that leaves the registry
\* empty calls _exitMaster with the pool-exhaustion fault.
C10_ExhaustionIgnoresFlag ==
  [][(ExitRan(fx') /\ workers' = <<>>) =>
       /\ Len(exitMasterCalls') > Len(exitMasterCalls)
       /\ Last(exitMasterCalls') = PoolFault
       /\ \E p \in DOMAIN fx' : fx'[p] = Fx("_exitMaster", "", 0, PoolFault)]_vars

C10_Witness ==
  /\ ~options.killOnError /\ ExitRan(fx) /\ workers = <<>>
  /\ exitNoted = {1, 2}
  /\ exitMasterCalls = <<PoolFault>>

\* C11: every _exitMaster(err) calls the configured hook next, once, with the
\* same fault, so the hook has been called with exactly the faults
\* _exitMaster was called with; a process exit happens when a hook call
\* signals completion and has status 1 when that call carried a fault and
\* status 0 when it carried none.
C11_ExitMasterRunsHook ==
  [][ /\ \A p \in DOMAIN fx' :
          fx'[p].op = "_exitMaster" =>
            /\ p < Len(fx')
            /\ fx'[p + 1] = Fx("beforeExit", options.beforeExit, 0, fx'[p].err)
      /\ Len(Only(fx', "beforeExit")) = Len(Only(fx', "_exitMaster"))
      /\ hookCalls' = exitMasterCalls'
      /\ exitCode' # exitCode =>
            \/ /\ Len(fx') >= 2
               /\ fx'[Len(fx') - 1].op = "beforeExit"
               /\ exitCode' = StatusOf(fx'[Len(fx') - 1].err)
            \/ /\ fx' = <<Fx("process.exit", "", exitCode', NoFault)>>
               /\ \E i \in DOMAIN hookPending :
                    /\ hookPending' = SubSeq(hookPending, 1, i - 1)
                                        \o SubSeq(hookPending, i + 1, Len(hookPending))
                    /\ exitCode' = StatusOf(hookPending[i])]_vars

C11_Witness ==
  /\ options.beforeExit = "asyncHook"
  /\ exitMasterCalls = <<MasterFault(0)>> /\ hookCalls = <<MasterFault(0)>>
  /\ hookPending = <<>> /\ exitCode = 1

\* C12: the process is terminated only in a step in which a hook call signals
\* completion (at once for a synchronous hook, later for an asynchronous
\* one), never while every hook call made so far is still outstanding; with
\* a hook that never signals completion the process is never terminated.
C12_NoExitBeforeHookDone ==
  [][ /\ exitCode' # exitCode =>
            \/ /\ Len(fx') >= 2
               /\ fx'[Len(fx') - 1].op = "beforeExit"
               /\ fx'[Len(fx') - 1].a \in {"defaultHook", "syncHook"}
            \/ /\ Len(fx') = 1
               /\ Len(hookPending') = Len(hookPending) - 1
      /\ exitCode' # Running => Len(hookCalls') > Len(hookPending')
      /\ options.beforeExit = "noop" => exitCode' = Running]_vars

C12_Witness ==
  /\ options.beforeExit = "noop"
  /\ exitMasterCalls = <<PoolFault>> /\ hookCalls = <<PoolFault>>
  /\ workers = <<>> /\ exitCode = Running

\* C13: after construction with a pre-exit hook that is not callable, a call
\* of _exitMaster(err) terminates the process with the status derived from
\* err.
C13_NonCallableHookIsDefault ==
  (ctor.arg.beforeExit = "notFn" /\ exitMasterCalls # <<>>) =>
    exitCode = StatusOf(exitMasterCalls[1])

\* C14: a start() call runs exactly one of the two startups: in the master
\* role the master startup (one master domain, one call of the master
\* routine) and no call of the worker routine; in the worker role one call of
\* the worker routine with the manager and nothing of the master startup.
C14_StartRunsOneStartup ==
  [][starts' = starts + 1 =>
       /\ isMaster =>
            /\ domains' = domains + 1
            /\ Len(masterCalls') = Len(masterCalls) + 1
            /\ workerCalls' = workerCalls
            /\ Only(fx', "worker") = <<>>
       /\ ~isMaster =>
            /\ workerCalls' = Append(workerCalls, "manager")
            /\ fx' = <<Fx("worker", options.worker, 0, NoFault)>>
            /\ domains' = domains /\ masterCalls' = masterCalls
            /\ listeners' = listeners /\ nextId' = nextId
            /\ workers' = workers]_vars

C14_Witness ==
  /\ ~isMaster /\ starts = 1
  /\ workerCalls = <<"manager">> /\ domains = 0 /\ masterCalls = <<>>

\* C15: in the master role, after a second start() each lifecycle event
\* still has one listener and the facility has forked no more workers than
\* the pool of the first start() and the createWorker() calls made since.
C15_StartIdempotent ==
  (isMaster /\ starts >= 2) =>
    /\ \A e \in EventSet : listeners[e] = 1
    /\ nextId = options.numWorkers + creates

\* C16: new ClusterManager() with no argument, with options that have no
\* worker, or with a worker that is not a function throws 'Cluster must be
\* provided with a worker closure.' whatever the other options and the
\* environment are, and leaves no manager: no option is stored or replaced
\* and nothing is logged.
C16_MissingWorkerThrows ==
  (ctor.done /\ (ctor.arg.form = "none" \/ ctor.arg.worker \in {Undef, "notFn"})) =>
    /\ ctor.thrown = WorkerMissing
    /\ options = NormalizeOpts(ctor.arg)
    /\ fx = <<>>

C16_Witness ==
  /\ ctor.done /\ ctor.thrown = WorkerMissing
  /\ ctor.arg.form = "object" /\ ctor.arg.worker = "notFn"
  /\ ctor.arg.master = "masterFn" /\ ctor.arg.beforeExit = "notFn"

\* C17: new ClusterManager(fn) and new ClusterManager({worker: fn, ...}) with
\* a callable fn do not throw; options.worker is fn, options.master is the
\* given master routine or the no-op when none is given, options.killOnError
\* is the given value or true when none is given.
C17_ValidWorkerConstructs ==
  (ctor.done /\ ctor.arg.form \in {"function", "object"}
             /\ ctor.arg.worker = "workerFn") =>
    /\ ctor.thrown = Undef
    /\ options.worker = ctor.arg.worker
    /\ options.master = IF ctor.arg.master = Undef THEN "noop" ELSE ctor.arg.master
    /\ options.killOnError = IF ctor.arg.killOnError = Undef THEN TRUE
                             ELSE ctor.arg.killOnError = "true"

C17_Witness ==
  /\ ctor.done /\ ctor.thrown = Undef /\ ctor.arg.form = "function"
  /\ options.worker = "workerFn" /\ options.master = "noop"
  /\ options.killOnError = TRUE

\* C18: an error on a worker's domain writes exactly one log entry, at error
\* severity, and then sends kill to that worker's process, whatever
\* killOnError is and however many workers are registered.
C18_WorkerErrorLogsAndKills ==
  [][workerErrors' = workerErrors + 1 =>
       \E w \in workerDomains :
         /\ fx' = <<Fx("log", "error", w,
                       [NoFault EXCEPT !.message = "Unhandled worker error"]),
                    Fx("kill", "", w, NoFault)>>
         /\ kills' = kills \cup {w}]_vars

C18_Witness ==
  /\ workerErrors = 1 /\ ~options.killOnError
  /\ workers = <<1, 2>> /\ kills = {2}
  /\ Len(ErrorLogs(fx)) = 1 /\ Last(fx) = Fx("kill", "", 2, NoFault)

\* C19: an error on a worker's domain calls neither masterError nor
\* _exitMaster nor the hook, does not end the process, kills no worker other
\* than the faulted one, and leaves this.workers and cluster.workers as they
\* were.
C19_WorkerErrorStaysLocal ==
  [][workerErrors' # workerErrors =>
       /\ UNCHANGED <<masterErrorCalls, exitMasterCalls, hookCalls, hookPending,
                      exitCode, pendingErrs, workers, clusterWorkers>>
       /\ Only(fx', "_exitMaster") = <<>>
       /\ \A e \in {fx'[p] : p \in DOMAIN fx'} : e.w = fx'[1].w
       /\ kills' \ kills \subseteq {fx'[1].w}]_vars

C19_Witness ==
  /\ workerErrors = 1 /\ options.killOnError
  /\ workers = <<1, 2>> /\ clusterWorkers = {1, 2} /\ kills = {1}
  /\ masterErrorCalls = <<>> /\ exitMasterCalls = <<>> /\ exitCode = Running

\* the log entry of the fork, online, listening or disconnect handler
InfoLog(ev, w) ==
  Fx("log", "info", w,
     [NoFault EXCEPT !.message =
        CASE ev = "fork" -> "Worker forked"
          [] ev = "online" -> "Worker online"
          [] ev = "listening" -> "Worker listening"
          [] ev = "disconnect" -> "Worker disconnected"])

\* C20: delivering fork, online, listening or disconnect for a worker writes
\* one informational log entry per bound handler and changes nothing else:
\* the registry, cluster.workers, the options, the kills and the shutdown
\* state are as before.
C20_InfoHandlersOnlyLog ==
  [][\A ev \in EventSet \ {"exit"}, w \in Ids :
       (fx' # <<>> /\ fx'[1] = InfoLog(ev, w)) =>
         /\ fx' = [i \in 1..listeners[ev] |-> InfoLog(ev, w)]
         /\ UNCHANGED <<options, givenNumWorkers, isMaster, workers,
                        clusterWorkers, nextId, listeners, domains,
                        workerDomains, kills, exitMasterCalls, hookCalls,
                        hookPending, exitCode, masterCalls, workerCalls,
                        masterErrorCalls, pendingErrs, caught>>]_vars

C20_Witness ==
  /\ fx = <<InfoLog("disconnect", 1)>>
  /\ workers = <<1, 2>> /\ clusterWorkers = {1, 2} /\ kills = {}
  /\ exitMasterCalls = <<>> /\ exitCode = Running

\* the log entry the handler of event ev writes first for worker w
HandlerLog(ev, w) ==
  Fx("log", "info", w,
     [NoFault EXCEPT !.message =
        CASE ev = "fork" -> "Worker forked"
          [] ev = "online" -> "Worker online"
          [] ev = "listening" -> "Worker listening"
          [] ev = "disconnect" -> "Worker disconnected"
          [] ev = "exit" -> "Worker exited"])

\* the positions of f at which a lifecycle handler starts
HandlerRuns(f) ==
  {p \in DOMAIN f : \E ev \in EventSet : f[p] = HandlerLog(ev, f[p].w)}

\* C21: a master startup calls cluster.on exactly five times, once for each
\* of fork, listening, exit, online and disconnect; after one master startup
\* an event emitted on cluster for a worker runs the handler of that name
\* once, for that worker, and no other handler.
C21_FiveSubscriptions ==
  [][ /\ (isMaster /\ starts' = starts + 1) =>
            Only(fx', "cluster.on")
              = [i \in 1..5 |-> Fx("cluster.on", eventNames[i], 0, NoFault)]
      /\ (isMaster /\ starts' = 1) => \A e \in EventSet : listeners'[e] = 1
      /\ (isMaster /\ starts = 1 /\ emitted' # NoEvent) =>
            /\ fx'[1] = HandlerLog(emitted'.ev, emitted'.w)
            /\ HandlerRuns(fx') = {1}]_vars

C21_Witness ==
  /\ isMaster /\ starts = 1
  /\ emitted = [ev |-> "online", w |-> 2]
  /\ fx = <<HandlerLog("online", 2)>>

\* C22: a createWorker() call asks cluster.fork() for one worker, appends the
\* handle it got as the last entry of this.workers (one entry more, the
\* earlier entries unchanged), writes one informational log entry and
\* returns that handle; the calls made by the spawn loop of a startup do the
\* same, one handle per call.
C22_CreateWorkerAppends ==
  [][ /\ creates' = creates + 1 =>
            /\ fx' = <<Fx("cluster.fork", "", nextId + 1, NoFault),
                       Fx("log", "info", nextId + 1,
                          [NoFault EXCEPT !.message = "Created new worker"]),
                       Fx("return", "createWorker", nextId + 1, NoFault)>>
            /\ workers' = Append(workers, nextId + 1)
            /\ clusterWorkers' = clusterWorkers \cup {nextId + 1}
      /\ LET forks == Only(fx', "cluster.fork") IN
            forks # <<>> =>
              /\ workers' = workers \o [i \in 1..Len(forks) |-> forks[i].w]
              /\ Cardinality(LogAt(fx', "Created new worker")) = Len(forks)]_vars

C22_Witness ==
  /\ creates = 1 /\ workers = <<1, 2, 3>>
  /\ Last(fx) = Fx("return", "createWorker", 3, NoFault)

\* C23: the worker startup calls the worker routine once, with the manager,
\* and does nothing else: no fork, no listener on cluster, no domain, no
\* change of this.workers.
C23_StartWorkerOnlyCallsWorker ==
  [][(~isMaster /\ starts' = starts + 1) =>
       /\ fx' = <<Fx("worker", options.worker, 0, NoFault)>>
       /\ Len(workerCalls') = Len(workerCalls) + 1
       /\ Last(workerCalls') = "manager"
       /\ UNCHANGED <<workers, clusterWorkers, nextId, listeners, domains,
                      workerDomains, kills, masterCalls, exitMasterCalls,
                      exitCode>>]_vars

C23_Witness ==
  /\ ~isMaster /\ starts = 2
  /\ workerCalls = <<"manager", "manager">>
  /\ workers = <<>> /\ domains = 0 /\ workerDomains = {}

\* the text of the error entry written for a fault before it is given to
\* _exitMaster
FatalText(err) ==
  IF err = PoolFault THEN "Cluster fatal: all worker have died"
  ELSE "Unhandled master error"

\* C24: whenever exit or masterError hands a fault to _exitMaster, an
\* error-severity log entry for that fault has been written before in the
\* same operation; the process is terminated only for a fault that was
\* handed to _exitMaster, so the entry precedes the termination.
C24_ErrorLogBeforeExit ==
  [][ /\ directExits' = directExits =>
            \A p \in DOMAIN fx' :
              fx'[p].op = "_exitMaster" =>
                \E q \in 1..(p - 1) :
                  /\ fx'[q].op = "log" /\ fx'[q].a = "error"
                  /\ fx'[q].err.message = FatalText(fx'[p].err)
      /\ \A i \in DOMAIN hookPending' :
            \E j \in DOMAIN exitMasterCalls' : exitMasterCalls'[j] = hookPending'[i]
      /\ \A p \in DOMAIN fx' :
            (fx'[p].op = "process.exit" /\ p > 1) =>
              \E q \in 1..(p - 1) : fx'[q].op = "_exitMaster"]_vars

C24_Witness ==
  /\ options.beforeExit = "asyncHook"
  /\ exitMasterCalls = <<PoolFault>> /\ directExits = 0
  /\ fx = <<Fx("process.exit", "", 1, NoFault)>> /\ exitCode = 1

\* C25: the status of a terminated master is 0 or 1; it is 1 only if a fault
\* was handed to _exitMaster, it is 0 only if _exitMaster was called without
\* a fault (a direct call), and when every call of _exitMaster carried a
\* fault (master fault with killOnError, pool exhaustion) it is 1.
C25_ExitStatus ==
  exitCode # Running =>
    /\ exitCode \in {0, 1}
    /\ exitCode = 1 => \E i \in DOMAIN exitMasterCalls : exitMasterCalls[i] # NoFault
    /\ exitCode = 0 =>
         /\ directExits > 0
         /\ \E i \in DOMAIN exitMasterCalls : exitMasterCalls[i] = NoFault
    /\ (\A i \in DOMAIN exitMasterCalls : exitMasterCalls[i] # NoFault) => exitCode = 1

C25_Witness ==
  /\ exitCode = 0 /\ exitMasterCalls = <<NoFault>>
  /\ workers = <<1, 2>> /\ masterErrorCalls = <<>>

C27_NumWorkersResolution ==
  (ctor.done /\ ctor.thrown = Undef) =>
    options.numWorkers =
      IF ctor.arg.numWorkers # Undef THEN ToNumber(ctor.arg.numWorkers)
      ELSE IF ctor.env # Undef THEN ToNumber(ctor.env)
      ELSE Cpus

C27_Witness ==
  /\ ctor.done /\ ctor.thrown = Undef
  /\ ctor.arg.numWorkers = "1" /\ ctor.env = "3" /\ options.numWorkers = 1

C28_RespawnKeepsPool ==
  (isMaster /\ starts = 1 /\ emitted.ev = "exit") =>
    /\ Len(workers) = options.numWorkers
    /\ exitMasterCalls = <<>>

C31_RegistryHoldsNoHandleTwice ==
  \A i, j \in DOMAIN workers : i # j => workers[i] # workers[j]

C31_Witness ==
  /\ starts = 1 /\ creates = 1 /\ exitNoted = {1}
  /\ workers = <<2, 3>>

\* C32: an exit notification for a worker that is not in this.workers, be it
\* never registered or already removed, leaves this.workers as it was,
\* contents and order.
C32_StrayExitRemovesNothing ==
  [][\A w \in Ids :
       (ExitRan(fx') /\ fx'[1].w = w /\ (\A i \in DOMAIN workers : workers[i] # w))
       => workers' = workers]_vars

C32_Witness ==
  /\ ExitRan(fx) /\ fx[1].w = 1
  /\ exitNoted = {1} /\ strays = 1 /\ nextId = 2
  /\ workers = <<2>>

\* the positions of f that hold an entry with the given op
At(f, op) == {p \in DOMAIN f : f[p].op = op}

\* C33: a master startup creates the master domain first, then binds the
\* five lifecycle events in the order fork, listening, exit, online,
\* disconnect, then forks the workers, then runs the master routine once;
\* so a worker exists only when 'exit' has a listener, and the master
\* routine has run only when a master domain exists.
C33_StartupOrder ==
  [][/\ (isMaster /\ starts' = starts + 1) =>
          LET f == fx'
              d == At(f, "domain.create")
              b == At(f, "cluster.on")
              k == At(f, "cluster.fork")
              m == At(f, "master")
          IN /\ Cardinality(d) = 1 /\ Cardinality(m) = 1
             /\ Cardinality(b) = Len(eventNames)
             /\ Cardinality(k) = options.numWorkers
             /\ \A p \in d, q \in b : p < q
             /\ \A p \in b, q \in k : p < q
             /\ \A p \in b \cup k, q \in m : p < q
             /\ \A p \in d, i \in 1..Len(eventNames) : f[p + i].a = eventNames[i]
     /\ nextId' > 0 => listeners'["exit"] >= 1
     /\ masterCalls' # <<>> => domains' >= 1]_vars

C33_Witness ==
  /\ isMaster /\ starts = 1 /\ options.numWorkers = 2
  /\ At(fx, "domain.create") = {1}
  /\ At(fx, "cluster.on") = 2..6
  /\ At(fx, "cluster.fork") = {7, 9}
  /\ At(fx, "master") = {11}

\* C34: once a master startup has run, whatever the number of start() calls,
\* exactly one master domain has been created for the manager, and none
\* before; every handle the manager created carries a worker domain from its
\* creation on.
C34_OneBoundaryEach ==
  /\ (isMaster /\ starts >= 1) => domains = 1
  /\ starts = 0 => domains = 0
  /\ workerDomains = 1..nextId
  /\ \A i \in DOMAIN workers : workers[i] \in workerDomains

\* C35: with killOnError false a run of masterError ends with its log entry
\* and leaves this.workers, the listeners and the options as they were, with
\* the process running; an exit notification that comes later is handled,
\* and one that leaves no live worker calls _exitMaster with the
\* pool-exhaustion fault, whose exit status is 1.
C35_MasterErrorKeepsRunning ==
  [][/\ (~options.killOnError /\ masterErrorCalls' # masterErrorCalls) =>
          /\ exitCode' = Running
          /\ options' = options /\ givenNumWorkers' = givenNumWorkers
          /\ Last(fx').op = "log"
          /\ Last(fx').err.message = "Unhandled master error"
          /\ starts' = starts =>
                /\ workers' = workers /\ listeners' = listeners
                /\ clusterWorkers' = clusterWorkers /\ kills' = kills
          /\ starts' # starts => workers' = Last(masterCalls').seen
     /\ (~options.killOnError /\ masterErrorCalls # <<>> /\ emitted'.ev = "exit") =>
          /\ ExitRan(fx') /\ fx'[1].w = emitted'.w
          /\ \A i \in DOMAIN workers' : workers'[i] # emitted'.w
          /\ clusterWorkers' = {} =>
                /\ Len(exitMasterCalls') > Len(exitMasterCalls)
                /\ Last(exitMasterCalls') = PoolFault
                /\ StatusOf(PoolFault) = 1
                /\ exitCode' \in {Running, 1}
                /\ options.beforeExit = "defaultHook" => exitCode' = 1]_vars

C35_Witness ==
  /\ ~options.killOnError /\ options.beforeExit = "defaultHook"
  /\ masterErrorCalls = <<MasterFault(1)>>
  /\ ExitRan(fx) /\ exitNoted = {1}
  /\ workers = <<>> /\ exitMasterCalls = <<PoolFault>> /\ exitCode = 1

\* C36: in every state after construction the options (worker routine,
\* master routine, worker count, killOnError, pre-exit hook) and
\* givenNumWorkers are the values the constructor left, whatever start,
\* createWorker, the lifecycle handlers, masterError and _exitMaster did.
C36_OptionsKeepConstructedValues ==
  /\ options = ClusterManager(ctor.arg, ctor.env).options
  /\ givenNumWorkers = ClusterManager(ctor.arg, ctor.env).givenNumWorkers

C36_Witness ==
  /\ ctor.arg.beforeExit = "asyncHook" /\ options.beforeExit = "asyncHook"
  /\ options.master = "masterFn" /\ options.killOnError
  /\ starts = 1 /\ creates = 1 /\ exitNoted # {}
  /\ masterErrorCalls # <<>> /\ exitMasterCalls # <<>>

\* C37: once _exitMaster has been called with a hook that calls done(), the
\* process eventually exits, provided the outstanding done() is eventually
\* called; with the default hook the process has exited when the _exitMaster
\* call returns.
C37_ShutdownTerminates ==
  /\ [](exitMasterCalls # <<>> /\ options.beforeExit = "defaultHook"
          => exitCode = StatusOf(exitMasterCalls[1]))
  /\ (exitMasterCalls # <<>> /\ options.beforeExit # "noop")
       ~> (exitCode # Running)

C37_Witness ==
  /\ options.beforeExit = "asyncHook"
  /\ exitMasterCalls = <<MasterFault(1)>> /\ hookCalls = <<MasterFault(1)>>
  /\ hookPending = <<>> /\ exitCode = 1
  /\ fx = <<Fx("process.exit", "", 1, NoFault)>>

\* C38: in the lifetime of one master the pre-exit hook is called at most
\* once and process.exit is called at most once, also when a second cause of
\* shutdown occurs before the hook has called done().
C38_HookAndExitAtMostOnce ==
  /\ Len(hookCalls) <= 1
  /\ Len(Only(fx, "process.exit")) <= 1

\* C39: masterError and _exitMaster send no kill to a worker and remove no
\* entry of this.workers: a step in which either runs without the exit
\* handler leaves this.workers, cluster.workers and the kills as they were
\* (after a start() this.workers is what the master routine saw), and the
\* done() call that ends the process changes none of them either.
C39_ShutdownLeavesWorkers ==
  [][(\/ masterErrorCalls' # masterErrorCalls
      \/ exitMasterCalls' # exitMasterCalls
      \/ exitCode' # exitCode) =>
       /\ kills' = kills
       /\ (starts' = starts /\ ~ExitRan(fx')) =>
            /\ workers' = workers
            /\ clusterWorkers' = clusterWorkers
       /\ starts' # starts =>
            /\ workers' = Last(masterCalls').seen
            /\ clusterWorkers' = clusterWorkers
                                  \cup {workers'[i] : i \in DOMAIN workers'}
       /\ ExitRan(fx') =>
            \A i \in DOMAIN workers :
              workers[i] # fx'[1].w => \E j \in DOMAIN workers' : workers'[j] = workers[i]]_vars

C39_Witness ==
  /\ options.killOnError /\ options.beforeExit = "defaultHook"
  /\ masterErrorCalls = <<MasterFault(1)>> /\ exitMasterCalls = <<MasterFault(1)>>
  /\ masterCalls[1].outcome = "throwAsync"
  /\ exitCode = 1 /\ workers = <<1, 2>> /\ clusterWorkers = {1, 2} /\ kills = {}

====
